---- MODULE Spec2Model ----
(***************************************************************************)
(* Wire codec of the librbd journal records (librbd/journal/Types.cc):     *)
(* EventEntry and ClientData are tagged unions wrapped in a versioned       *)
(* envelope, TagData is a flat record.  Bytes are naturals 0..255, a        *)
(* bufferlist is a sequence of bytes, an iterator is a 0-based offset.      *)
(***************************************************************************)
EXTENDS Integers, Sequences, FiniteSets, TLC

(***************************************************************************)
(* Bounds of the model.                                                    *)
(***************************************************************************)
\* envelopes a bufferlist holds at most
MaxRecs == 2
\* trailing bytes a newer writer appends inside the declared length
MaxExtra == 2
\* payload bytes of an envelope with a discriminator unknown to this build
MaxUnknownPayload == 2
\* envelopes of other builds a bufferlist holds at most
MaxForeign == 1

(***************************************************************************)
(* Discriminators (enum EventType / ClientMetaType, librbd/journal/Types.h)*)
(***************************************************************************)
EVENT_TYPE_AIO_DISCARD == 0
EVENT_TYPE_AIO_WRITE == 1
EVENT_TYPE_AIO_FLUSH == 2
EVENT_TYPE_OP_FINISH == 3
EVENT_TYPE_SNAP_CREATE == 4
EVENT_TYPE_SNAP_REMOVE == 5
EVENT_TYPE_SNAP_RENAME == 6
EVENT_TYPE_SNAP_PROTECT == 7
EVENT_TYPE_SNAP_UNPROTECT == 8
EVENT_TYPE_SNAP_ROLLBACK == 9
EVENT_TYPE_RENAME == 10
EVENT_TYPE_RESIZE == 11
EVENT_TYPE_FLATTEN == 12
\* UnknownEvent::TYPE, static_cast<EventType>(-1)
EVENT_TYPE_UNKNOWN == -1

IMAGE_CLIENT_META_TYPE == 0
MIRROR_PEER_CLIENT_META_TYPE == 1
CLI_CLIENT_META_TYPE == 2
\* UnknownClientMeta::TYPE, static_cast<ClientMetaType>(-1)
CLIENT_META_TYPE_UNKNOWN == -1

\* ENCODE_START(1, 1, bl) / DECODE_START(1, it): the struct version written,
\* the compat version written, and the newest version the decoder understands
STRUCT_V == 1
STRUCT_COMPAT == 1
DECODE_V == 1

(***************************************************************************)
(* Fixed-width little-endian integers (::encode / ::decode of __u8,        *)
(* uint32_t, uint64_t, int32_t, int64_t).  An integer of width w is held   *)
(* by its two's complement reading: -2 in a uint64_t field is 2^64-2       *)
(* (CEPH_NOSNAP), -1 in a uint32_t is 2^32-1.                              *)
(***************************************************************************)
RECURSIVE EncLE(_, _)
EncLE(v, w) == IF w = 0 THEN << >> ELSE <<v % 256>> \o EncLE(v \div 256, w - 1)

\* a negative v is written as the complement of -(v+1)
EncodeInt(v, w) ==
  IF v >= 0 THEN EncLE(v, w)
  ELSE [i \in 1..w |-> 255 - EncLE(-(v + 1), w)[i]]

Fits(bs) == \A i \in 1..Len(bs) : (i > 4 => bs[i] = 0) /\ (i = 4 => bs[i] < 128)

RECURSIVE SumLE(_)
SumLE(bs) == IF bs = << >> THEN 0 ELSE Head(bs) + 256 * SumLE(Tail(bs))

\* values wider than the model's integers saturate
DecLE(bs) == IF Fits(bs) THEN SumLE(bs) ELSE 2147483647

DecodeInt(bs) ==
  IF Len(bs) > 0 /\ bs[Len(bs)] >= 128
  THEN -(DecLE([i \in 1..Len(bs) |-> 255 - bs[i]])) - 1
  ELSE DecLE(bs)

\* a > b for an unsigned a held as above and a natural b
UnsignedGreater(a, b) == a < 0 \/ a > b

(***************************************************************************)
(* Reading through a bufferlist::iterator.  A reader r is                  *)
(* [ok, v, off]: the object being filled, the offset, and ok = FALSE once  *)
(* buffer::end_of_buffer was thrown (the object keeps what was read).      *)
(***************************************************************************)
Reader(t, off) == [ok |-> TRUE, v |-> t, off |-> off]

\* ::decode(field, it) of a fixed-width integer of w bytes
DecodeIntField(r, bl, w, field) ==
  IF ~r.ok THEN r
  ELSE IF r.off + w > Len(bl) THEN [r EXCEPT !.ok = FALSE]
  ELSE [ok |-> TRUE,
        v |-> [r.v EXCEPT ![field] = DecodeInt(SubSeq(bl, r.off + 1, r.off + w))],
        off |-> r.off + w]

\* std::string and bufferlist: u32 length, then that many bytes
EncodeString(s) == EncLE(Len(s), 4) \o s

\* ::decode(field, it) of a std::string or a bufferlist
DecodeStringField(r, bl, field) ==
  IF ~r.ok THEN r
  ELSE IF r.off + 4 > Len(bl) THEN [r EXCEPT !.ok = FALSE]
  ELSE LET n == DecodeInt(SubSeq(bl, r.off + 1, r.off + 4)) IN
       IF UnsignedGreater(n, Len(bl) - (r.off + 4))
       THEN [r EXCEPT !.ok = FALSE, !.off = r.off + 4]
       ELSE [ok |-> TRUE,
             v |-> [r.v EXCEPT ![field] = SubSeq(bl, r.off + 5, r.off + 4 + n)],
             off |-> r.off + 4 + n]

(***************************************************************************)
(* Event variants: default constructors (Types.h) and the codecs of        *)
(* Types.cc.  An event is a record [variant, fields...].                   *)
(***************************************************************************)
CEPH_NOSNAP == -2

AioDiscardEvent(offset, length) ==
  [variant |-> "AioDiscardEvent", offset |-> offset, length |-> length]
AioWriteEvent(offset, length, data) ==
  [variant |-> "AioWriteEvent", offset |-> offset, length |-> length, data |-> data]
AioFlushEvent == [variant |-> "AioFlushEvent"]
OpFinishEvent(op_tid, r) == [variant |-> "OpFinishEvent", op_tid |-> op_tid, r |-> r]
SnapEvent(variant, op_tid, snap_name) ==
  [variant |-> variant, op_tid |-> op_tid, snap_name |-> snap_name]
SnapRenameEvent(op_tid, snap_id, snap_name) ==
  [variant |-> "SnapRenameEvent", op_tid |-> op_tid, snap_name |-> snap_name,
   snap_id |-> snap_id]
RenameEvent(op_tid, image_name) ==
  [variant |-> "RenameEvent", op_tid |-> op_tid, image_name |-> image_name]
ResizeEvent(op_tid, size) == [variant |-> "ResizeEvent", op_tid |-> op_tid, size |-> size]
FlattenEvent(op_tid) == [variant |-> "FlattenEvent", op_tid |-> op_tid]
UnknownEvent == [variant |-> "UnknownEvent"]

SnapVariants == {"SnapCreateEvent", "SnapRemoveEvent", "SnapProtectEvent",
                 "SnapUnprotectEvent", "SnapRollbackEvent"}

AioDiscardEvent_encode(t) == EncodeInt(t.offset, 8) \o EncodeInt(t.length, 8)
AioDiscardEvent_decode(r, bl) ==
  DecodeIntField(DecodeIntField(r, bl, 8, "offset"), bl, 8, "length")

AioWriteEvent_encode(t) ==
  EncodeInt(t.offset, 8) \o EncodeInt(t.length, 8) \o EncodeString(t.data)
\* AioWriteEvent::decode reading length before offset
AioWriteEvent_decode_Swapped(r, bl) ==
  DecodeStringField(
    DecodeIntField(DecodeIntField(r, bl, 8, "length"), bl, 8, "offset"), bl, "data")
AioWriteEvent_decode(r, bl) ==
  DecodeStringField(
    DecodeIntField(DecodeIntField(r, bl, 8, "offset"), bl, 8, "length"), bl, "data")

AioFlushEvent_encode(t) == << >>
AioFlushEvent_decode(r, bl) == r

OpEventBase_encode(t) == EncodeInt(t.op_tid, 8)
OpEventBase_decode(r, bl) == DecodeIntField(r, bl, 8, "op_tid")

\* OpFinishEvent::encode writing the operation id once
OpFinishEvent_encode_Once(t) == OpEventBase_encode(t) \o EncodeInt(t.r, 4)
OpFinishEvent_encode(t) ==
  OpEventBase_encode(t) \o EncodeInt(t.op_tid, 8) \o EncodeInt(t.r, 4)
OpFinishEvent_decode(r, bl) ==
  DecodeIntField(DecodeIntField(OpEventBase_decode(r, bl), bl, 8, "op_tid"), bl, 4, "r")

SnapEventBase_encode(t) == OpEventBase_encode(t) \o EncodeString(t.snap_name)
SnapEventBase_decode(r, bl) ==
  DecodeStringField(OpEventBase_decode(r, bl), bl, "snap_name")

\* SnapRenameEvent::encode writing snap_id ahead of snap_name
SnapRenameEvent_encode_IdFirst(t) ==
  OpEventBase_encode(t) \o EncodeInt(t.snap_id, 8) \o EncodeString(t.snap_name)
SnapRenameEvent_encode(t) == SnapEventBase_encode(t) \o EncodeInt(t.snap_id, 8)
SnapRenameEvent_decode(r, bl) ==
  DecodeIntField(SnapEventBase_decode(r, bl), bl, 8, "snap_id")

RenameEvent_encode(t) == OpEventBase_encode(t) \o EncodeString(t.image_name)
RenameEvent_decode(r, bl) ==
  DecodeStringField(OpEventBase_decode(r, bl), bl, "image_name")

ResizeEvent_encode(t) == OpEventBase_encode(t) \o EncodeInt(t.size, 8)
ResizeEvent_decode(r, bl) == DecodeIntField(OpEventBase_decode(r, bl), bl, 8, "size")

\* UnknownEvent::decode reads nothing
UnknownEvent_decode(r, bl) == r

\* UnknownEvent::encode without the assert
UnknownEvent_encode_Returns(t) == [abort |-> FALSE, bytes |-> << >>]

\* UnknownEvent::encode is assert(false): the process aborts
UnknownEvent_encode(t) == [abort |-> TRUE, bytes |-> << >>]

\* a variant encode that returned normally
Written(bytes) == [abort |-> FALSE, bytes |-> bytes]

(***************************************************************************)
(* Client meta variants.                                                   *)
(***************************************************************************)
ImageClientMeta(tag_class) == [variant |-> "ImageClientMeta", tag_class |-> tag_class]
MirrorPeerClientMeta(cluster_id, pool_id, image_id) ==
  [variant |-> "MirrorPeerClientMeta", cluster_id |-> cluster_id,
   pool_id |-> pool_id, image_id |-> image_id]
CliClientMeta == [variant |-> "CliClientMeta"]
UnknownClientMeta == [variant |-> "UnknownClientMeta"]

ImageClientMeta_encode(t) == EncodeInt(t.tag_class, 8)
ImageClientMeta_decode(r, bl) == DecodeIntField(r, bl, 8, "tag_class")

MirrorPeerClientMeta_encode(t) ==
  EncodeString(t.cluster_id) \o EncodeInt(t.pool_id, 8) \o EncodeString(t.image_id)
MirrorPeerClientMeta_decode(r, bl) ==
  DecodeStringField(
    DecodeIntField(DecodeStringField(r, bl, "cluster_id"), bl, 8, "pool_id"),
    bl, "image_id")

CliClientMeta_encode(t) == << >>
CliClientMeta_decode(r, bl) == r

UnknownClientMeta_encode(t) == [abort |-> TRUE, bytes |-> << >>]
UnknownClientMeta_decode(r, bl) == r

(***************************************************************************)
(* The visitors.                                                           *)
(***************************************************************************)
\* T::TYPE of each variant
TYPE(variant) ==
  CASE variant = "AioDiscardEvent" -> EVENT_TYPE_AIO_DISCARD
    [] variant = "AioWriteEvent" -> EVENT_TYPE_AIO_WRITE
    [] variant = "AioFlushEvent" -> EVENT_TYPE_AIO_FLUSH
    [] variant = "OpFinishEvent" -> EVENT_TYPE_OP_FINISH
    [] variant = "SnapCreateEvent" -> EVENT_TYPE_SNAP_CREATE
    [] variant = "SnapRemoveEvent" -> EVENT_TYPE_SNAP_REMOVE
    [] variant = "SnapRenameEvent" -> EVENT_TYPE_SNAP_RENAME
    [] variant = "SnapProtectEvent" -> EVENT_TYPE_SNAP_PROTECT
    [] variant = "SnapUnprotectEvent" -> EVENT_TYPE_SNAP_UNPROTECT
    [] variant = "SnapRollbackEvent" -> EVENT_TYPE_SNAP_ROLLBACK
    [] variant = "RenameEvent" -> EVENT_TYPE_RENAME
    [] variant = "ResizeEvent" -> EVENT_TYPE_RESIZE
    [] variant = "FlattenEvent" -> EVENT_TYPE_FLATTEN
    [] variant = "UnknownEvent" -> EVENT_TYPE_UNKNOWN
    [] variant = "ImageClientMeta" -> IMAGE_CLIENT_META_TYPE
    [] variant = "MirrorPeerClientMeta" -> MIRROR_PEER_CLIENT_META_TYPE
    [] variant = "CliClientMeta" -> CLI_CLIENT_META_TYPE
    [] variant = "UnknownClientMeta" -> CLIENT_META_TYPE_UNKNOWN

\* GetTypeVisitor: the type is the held variant's static TYPE
GetTypeVisitor(t) == TYPE(t.variant)

\* t.encode(m_bl) of the held variant
VariantEncode(t) ==
  CASE t.variant = "AioDiscardEvent" -> Written(AioDiscardEvent_encode(t))
    [] t.variant = "AioWriteEvent" -> Written(AioWriteEvent_encode(t))
    [] t.variant = "AioFlushEvent" -> Written(AioFlushEvent_encode(t))
    [] t.variant = "OpFinishEvent" -> Written(OpFinishEvent_encode(t))
    [] t.variant \in SnapVariants -> Written(SnapEventBase_encode(t))
    [] t.variant = "SnapRenameEvent" -> Written(SnapRenameEvent_encode(t))
    [] t.variant = "RenameEvent" -> Written(RenameEvent_encode(t))
    [] t.variant = "ResizeEvent" -> Written(ResizeEvent_encode(t))
    [] t.variant = "FlattenEvent" -> Written(OpEventBase_encode(t))
    [] t.variant = "UnknownEvent" -> UnknownEvent_encode(t)
    [] t.variant = "ImageClientMeta" -> Written(ImageClientMeta_encode(t))
    [] t.variant = "MirrorPeerClientMeta" -> Written(MirrorPeerClientMeta_encode(t))
    [] t.variant = "CliClientMeta" -> Written(CliClientMeta_encode(t))
    [] t.variant = "UnknownClientMeta" -> UnknownClientMeta_encode(t)

\* EncodeVisitor: the discriminator as uint32_t, then the variant's fields
EncodeVisitor(t) ==
  LET e == VariantEncode(t) IN
  [abort |-> e.abort, bytes |-> EncodeInt(TYPE(t.variant), 4) \o e.bytes]

\* DecodeVisitor: t.decode(m_version, m_iter) of the held variant, r.v
DecodeVisitor(r, bl) ==
  CASE r.v.variant = "AioDiscardEvent" -> AioDiscardEvent_decode(r, bl)
    [] r.v.variant = "AioWriteEvent" -> AioWriteEvent_decode(r, bl)
    [] r.v.variant = "AioFlushEvent" -> AioFlushEvent_decode(r, bl)
    [] r.v.variant = "OpFinishEvent" -> OpFinishEvent_decode(r, bl)
    [] r.v.variant \in SnapVariants -> SnapEventBase_decode(r, bl)
    [] r.v.variant = "SnapRenameEvent" -> SnapRenameEvent_decode(r, bl)
    [] r.v.variant = "RenameEvent" -> RenameEvent_decode(r, bl)
    [] r.v.variant = "ResizeEvent" -> ResizeEvent_decode(r, bl)
    [] r.v.variant = "FlattenEvent" -> OpEventBase_decode(r, bl)
    [] r.v.variant = "UnknownEvent" -> UnknownEvent_decode(r, bl)
    [] r.v.variant = "ImageClientMeta" -> ImageClientMeta_decode(r, bl)
    [] r.v.variant = "MirrorPeerClientMeta" -> MirrorPeerClientMeta_decode(r, bl)
    [] r.v.variant = "CliClientMeta" -> CliClientMeta_decode(r, bl)
    [] r.v.variant = "UnknownClientMeta" -> UnknownClientMeta_decode(r, bl)

(***************************************************************************)
(* The versioned envelope (ENCODE_START / ENCODE_FINISH / DECODE_START /   *)
(* DECODE_FINISH of include/encoding.h).                                   *)
(***************************************************************************)
\* [struct_v:u8][struct_compat:u8][struct_len:u32][payload]
Envelope(v, compat, len, payload) == <<v, compat>> \o EncodeInt(len, 4) \o payload

\* ENCODE_START(v, compat, bl) ... ENCODE_FINISH(bl): the length is
\* back-patched with the size of what was written in between
ENCODE(v, compat, payload) == Envelope(v, compat, Len(payload), payload)

\* DECODE_START(v, it): [err, off, struct_end]
DECODE_START(v, bl, off) ==
  IF off + 1 > Len(bl) THEN [err |-> "end_of_buffer", off |-> off, struct_end |-> 0]
  ELSE IF off + 2 > Len(bl)
  THEN [err |-> "end_of_buffer", off |-> off + 1, struct_end |-> 0]
  ELSE IF v < bl[off + 2]
  THEN [err |-> "IncompatibleVersion", off |-> off + 2, struct_end |-> 0]
  ELSE IF off + 6 > Len(bl)
  THEN [err |-> "end_of_buffer", off |-> off + 2, struct_end |-> 0]
  ELSE LET struct_len == DecodeInt(SubSeq(bl, off + 3, off + 6)) IN
       IF UnsignedGreater(struct_len, Len(bl) - (off + 6))
       THEN [err |-> "malformed_input", off |-> off + 6, struct_end |-> 0]
       ELSE [err |-> "ok", off |-> off + 6, struct_end |-> off + 6 + struct_len]

\* DECODE_FINISH(it) after the body left the reader r: [err, v, off]
DECODE_FINISH(r, struct_end) ==
  IF ~r.ok THEN [err |-> "end_of_buffer", v |-> r.v, off |-> r.off]
  ELSE IF r.off > struct_end THEN [err |-> "malformed_input", v |-> r.v, off |-> r.off]
  ELSE [err |-> "ok", v |-> r.v, off |-> struct_end]

(***************************************************************************)
(* EventEntry.                                                             *)
(***************************************************************************)
\* the switch with a default that builds a known variant
EventOfType_NoPlaceholder(event_type) ==
  CASE event_type = EVENT_TYPE_AIO_DISCARD -> AioDiscardEvent(0, 0)
    [] event_type = EVENT_TYPE_AIO_WRITE -> AioWriteEvent(0, 0, << >>)
    [] event_type = EVENT_TYPE_AIO_FLUSH -> AioFlushEvent
    [] event_type = EVENT_TYPE_OP_FINISH -> OpFinishEvent(0, 0)
    [] event_type = EVENT_TYPE_SNAP_CREATE -> SnapEvent("SnapCreateEvent", 0, << >>)
    [] event_type = EVENT_TYPE_SNAP_REMOVE -> SnapEvent("SnapRemoveEvent", 0, << >>)
    [] event_type = EVENT_TYPE_SNAP_RENAME -> SnapRenameEvent(0, CEPH_NOSNAP, << >>)
    [] event_type = EVENT_TYPE_SNAP_PROTECT -> SnapEvent("SnapProtectEvent", 0, << >>)
    [] event_type = EVENT_TYPE_SNAP_UNPROTECT -> SnapEvent("SnapUnprotectEvent", 0, << >>)
    [] event_type = EVENT_TYPE_SNAP_ROLLBACK -> SnapEvent("SnapRollbackEvent", 0, << >>)
    [] event_type = EVENT_TYPE_RENAME -> RenameEvent(0, << >>)
    [] event_type = EVENT_TYPE_RESIZE -> ResizeEvent(0, 0)
    [] event_type = EVENT_TYPE_FLATTEN -> FlattenEvent(0)
    [] OTHER -> AioFlushEvent

\* the switch of EventEntry::decode: the variant default-constructed for a
\* discriminator
EventOfType(event_type) ==
  CASE event_type = EVENT_TYPE_AIO_DISCARD -> AioDiscardEvent(0, 0)
    [] event_type = EVENT_TYPE_AIO_WRITE -> AioWriteEvent(0, 0, << >>)
    [] event_type = EVENT_TYPE_AIO_FLUSH -> AioFlushEvent
    [] event_type = EVENT_TYPE_OP_FINISH -> OpFinishEvent(0, 0)
    [] event_type = EVENT_TYPE_SNAP_CREATE -> SnapEvent("SnapCreateEvent", 0, << >>)
    [] event_type = EVENT_TYPE_SNAP_REMOVE -> SnapEvent("SnapRemoveEvent", 0, << >>)
    [] event_type = EVENT_TYPE_SNAP_RENAME -> SnapRenameEvent(0, CEPH_NOSNAP, << >>)
    [] event_type = EVENT_TYPE_SNAP_PROTECT -> SnapEvent("SnapProtectEvent", 0, << >>)
    [] event_type = EVENT_TYPE_SNAP_UNPROTECT -> SnapEvent("SnapUnprotectEvent", 0, << >>)
    [] event_type = EVENT_TYPE_SNAP_ROLLBACK -> SnapEvent("SnapRollbackEvent", 0, << >>)
    [] event_type = EVENT_TYPE_RENAME -> RenameEvent(0, << >>)
    [] event_type = EVENT_TYPE_RESIZE -> ResizeEvent(0, 0)
    [] event_type = EVENT_TYPE_FLATTEN -> FlattenEvent(0)
    [] OTHER -> UnknownEvent

EventEntry_get_event_type(event) == GetTypeVisitor(event)

\* EventEntry::encode: [abort, bl]
EventEntry_encode(event, bl) ==
  LET e == EncodeVisitor(event) IN
  IF e.abort
  THEN [abort |-> TRUE, bl |-> bl \o Envelope(STRUCT_V, STRUCT_COMPAT, 0, e.bytes)]
  ELSE [abort |-> FALSE, bl |-> bl \o ENCODE(STRUCT_V, STRUCT_COMPAT, e.bytes)]

\* the body without the default case: an unknown discriminator leaves the
\* held variant in place and decodes into it
EventEntry_decode_body_KeepsHeld(event, bl, off) ==
  IF off + 4 > Len(bl) THEN [ok |-> FALSE, v |-> event, off |-> off]
  ELSE LET event_type == DecodeInt(SubSeq(bl, off + 1, off + 4)) IN
       DecodeVisitor(Reader(IF event_type \in 0..EVENT_TYPE_FLATTEN
                            THEN EventOfType(event_type) ELSE event, off + 4), bl)

\* the body of EventEntry::decode between DECODE_START and DECODE_FINISH
EventEntry_decode_body(event, bl, off) ==
  IF off + 4 > Len(bl) THEN [ok |-> FALSE, v |-> event, off |-> off]
  ELSE LET event_type == DecodeInt(SubSeq(bl, off + 1, off + 4)) IN
       DecodeVisitor(Reader(EventOfType(event_type), off + 4), bl)

\* EventEntry::decode without DECODE_FINISH: nothing is skipped or checked
EventEntry_decode_NoFinish(event, bl, off) ==
  LET s == DECODE_START(DECODE_V, bl, off) IN
  IF s.err # "ok" THEN [err |-> s.err, v |-> event, off |-> s.off]
  ELSE LET r == EventEntry_decode_body(event, bl, s.off) IN
       [err |-> IF r.ok THEN "ok" ELSE "end_of_buffer", v |-> r.v, off |-> r.off]

\* EventEntry::decode accepting every min-compatible version
EventEntry_decode_NoFloor(event, bl, off) ==
  LET s == DECODE_START(255, bl, off) IN
  IF s.err # "ok" THEN [err |-> s.err, v |-> event, off |-> s.off]
  ELSE DECODE_FINISH(EventEntry_decode_body(event, bl, s.off), s.struct_end)

\* EventEntry::decode seeking to the declared end without the overrun check
EventEntry_decode_Lenient(event, bl, off) ==
  LET s == DECODE_START(DECODE_V, bl, off) IN
  IF s.err # "ok" THEN [err |-> s.err, v |-> event, off |-> s.off]
  ELSE LET r == EventEntry_decode_body(event, bl, s.off) IN
       [err |-> IF r.ok THEN "ok" ELSE "end_of_buffer", v |-> r.v,
        off |-> IF r.ok THEN s.struct_end ELSE r.off]

\* EventEntry::decode: [err, v, off]
EventEntry_decode(event, bl, off) ==
  LET s == DECODE_START(DECODE_V, bl, off) IN
  IF s.err # "ok" THEN [err |-> s.err, v |-> event, off |-> s.off]
  ELSE DECODE_FINISH(EventEntry_decode_body(event, bl, s.off), s.struct_end)

(***************************************************************************)
(* ClientData.                                                             *)
(***************************************************************************)
ClientMetaOfType(client_meta_type) ==
  CASE client_meta_type = IMAGE_CLIENT_META_TYPE -> ImageClientMeta(0)
    [] client_meta_type = MIRROR_PEER_CLIENT_META_TYPE ->
         MirrorPeerClientMeta(<< >>, 0, << >>)
    [] client_meta_type = CLI_CLIENT_META_TYPE -> CliClientMeta
    [] OTHER -> UnknownClientMeta

ClientData_get_client_meta_type(client_meta) == GetTypeVisitor(client_meta)

ClientData_encode(client_meta, bl) ==
  LET e == EncodeVisitor(client_meta) IN
  IF e.abort
  THEN [abort |-> TRUE, bl |-> bl \o Envelope(STRUCT_V, STRUCT_COMPAT, 0, e.bytes)]
  ELSE [abort |-> FALSE, bl |-> bl \o ENCODE(STRUCT_V, STRUCT_COMPAT, e.bytes)]

ClientData_decode_body(client_meta, bl, off) ==
  IF off + 4 > Len(bl) THEN [ok |-> FALSE, v |-> client_meta, off |-> off]
  ELSE LET client_meta_type == DecodeInt(SubSeq(bl, off + 1, off + 4)) IN
       DecodeVisitor(Reader(ClientMetaOfType(client_meta_type), off + 4), bl)

ClientData_decode(client_meta, bl, off) ==
  LET s == DECODE_START(DECODE_V, bl, off) IN
  IF s.err # "ok" THEN [err |-> s.err, v |-> client_meta, off |-> s.off]
  ELSE DECODE_FINISH(ClientData_decode_body(client_meta, bl, s.off), s.struct_end)

(***************************************************************************)
(* TagData: a flat record without envelope.                                *)
(***************************************************************************)
TagData(cluster_id, pool_id, image_id, predecessor_tag_tid, predecessor_entry_tid) ==
  [cluster_id |-> cluster_id, pool_id |-> pool_id, image_id |-> image_id,
   predecessor_tag_tid |-> predecessor_tag_tid,
   predecessor_entry_tid |-> predecessor_entry_tid]

TagData_encode(tag, bl) ==
  bl \o EncodeString(tag.cluster_id) \o EncodeInt(tag.pool_id, 8)
     \o EncodeString(tag.image_id) \o EncodeInt(tag.predecessor_tag_tid, 8)
     \o EncodeInt(tag.predecessor_entry_tid, 8)

\* TagData::decode: [err, v, off]
TagData_decode(tag, bl, off) ==
  LET r == DecodeIntField(
             DecodeIntField(
               DecodeStringField(
                 DecodeIntField(
                   DecodeStringField(Reader(tag, off), bl, "cluster_id"),
                   bl, 8, "pool_id"),
                 bl, "image_id"),
               bl, 8, "predecessor_tag_tid"),
             bl, 8, "predecessor_entry_tid") IN
  [err |-> IF r.ok THEN "ok" ELSE "end_of_buffer", v |-> r.v, off |-> r.off]

(***************************************************************************)
(* Stringification and dump.  A Formatter's output is the sequence of      *)
(* <<key, value>> pairs dumped.                                            *)
(***************************************************************************)
Pad6(n) ==
  LET d == ToString(n) IN
  SubSeq("000000", 1, 6 - Len(d)) \o d

\* the decimal rendering of static_cast<uint32_t>(type): a negative v is 2^32 + v
U32ToString(v) ==
  IF v >= 0 THEN ToString(v)
  ELSE LET low == 967296 + v IN
       ToString(4294 + (low \div 1000000)) \o Pad6(low % 1000000)

\* operator<< with a default that prints no number
StringifyEventType_NoValue(type) ==
  CASE type = EVENT_TYPE_AIO_DISCARD -> "AioDiscard"
    [] type = EVENT_TYPE_AIO_WRITE -> "AioWrite"
    [] type = EVENT_TYPE_AIO_FLUSH -> "AioFlush"
    [] type = EVENT_TYPE_OP_FINISH -> "OpFinish"
    [] type = EVENT_TYPE_SNAP_CREATE -> "SnapCreate"
    [] type = EVENT_TYPE_SNAP_REMOVE -> "SnapRemove"
    [] type = EVENT_TYPE_SNAP_RENAME -> "SnapRename"
    [] type = EVENT_TYPE_SNAP_PROTECT -> "SnapProtect"
    [] type = EVENT_TYPE_SNAP_UNPROTECT -> "SnapUnprotect"
    [] type = EVENT_TYPE_SNAP_ROLLBACK -> "SnapRollback"
    [] type = EVENT_TYPE_RENAME -> "Rename"
    [] type = EVENT_TYPE_RESIZE -> "Resize"
    [] type = EVENT_TYPE_FLATTEN -> "Flatten"
    [] OTHER -> "Unknown"

\* operator<<(std::ostream&, const EventType&)
StringifyEventType(type) ==
  CASE type = EVENT_TYPE_AIO_DISCARD -> "AioDiscard"
    [] type = EVENT_TYPE_AIO_WRITE -> "AioWrite"
    [] type = EVENT_TYPE_AIO_FLUSH -> "AioFlush"
    [] type = EVENT_TYPE_OP_FINISH -> "OpFinish"
    [] type = EVENT_TYPE_SNAP_CREATE -> "SnapCreate"
    [] type = EVENT_TYPE_SNAP_REMOVE -> "SnapRemove"
    [] type = EVENT_TYPE_SNAP_RENAME -> "SnapRename"
    [] type = EVENT_TYPE_SNAP_PROTECT -> "SnapProtect"
    [] type = EVENT_TYPE_SNAP_UNPROTECT -> "SnapUnprotect"
    [] type = EVENT_TYPE_SNAP_ROLLBACK -> "SnapRollback"
    [] type = EVENT_TYPE_RENAME -> "Rename"
    [] type = EVENT_TYPE_RESIZE -> "Resize"
    [] type = EVENT_TYPE_FLATTEN -> "Flatten"
    [] OTHER -> "Unknown (" \o U32ToString(type) \o ")"

\* operator<<(std::ostream&, const ClientMetaType&)
StringifyClientMetaType(type) ==
  CASE type = IMAGE_CLIENT_META_TYPE -> "Master Image"
    [] type = MIRROR_PEER_CLIENT_META_TYPE -> "Mirror Peer"
    [] type = CLI_CLIENT_META_TYPE -> "CLI Tool"
    [] OTHER -> "Unknown (" \o U32ToString(type) \o ")"

OpEventBase_dump(t) == << <<"op_tid", t.op_tid>> >>
SnapEventBase_dump(t) == OpEventBase_dump(t) \o << <<"snap_name", t.snap_name>> >>

\* t.dump(m_formatter) of the held variant
VariantDump(t) ==
  CASE t.variant \in {"AioDiscardEvent", "AioWriteEvent"} ->
         << <<"offset", t.offset>>, <<"length", t.length>> >>
    [] t.variant = "OpFinishEvent" ->
         OpEventBase_dump(t) \o << <<"op_tid", t.op_tid>>, <<"result", t.r>> >>
    [] t.variant \in SnapVariants -> SnapEventBase_dump(t)
    [] t.variant = "SnapRenameEvent" ->
         SnapEventBase_dump(t)
           \o << <<"src_snap_id", t.snap_id>>, <<"dest_snap_name", t.snap_name>> >>
    [] t.variant = "RenameEvent" ->
         OpEventBase_dump(t) \o << <<"image_name", t.image_name>> >>
    [] t.variant = "ResizeEvent" -> OpEventBase_dump(t) \o << <<"size", t.size>> >>
    [] t.variant = "FlattenEvent" -> OpEventBase_dump(t)
    [] t.variant = "ImageClientMeta" -> << <<"tag_class", t.tag_class>> >>
    [] t.variant = "MirrorPeerClientMeta" ->
         << <<"cluster_id", t.cluster_id>>, <<"pool_id", t.pool_id>>,
            <<"image_id", t.image_id>> >>
    [] OTHER -> << >>

\* EventEntry::dump through DumpVisitor(f, "event_type")
EventEntry_dump(event) ==
  << <<"event_type", StringifyEventType(TYPE(event.variant))>> >> \o VariantDump(event)

\* ClientData::dump through DumpVisitor(f, "client_meta_type")
ClientData_dump(client_meta) ==
  << <<"client_meta_type", StringifyClientMetaType(TYPE(client_meta.variant))>> >>
    \o VariantDump(client_meta)

(***************************************************************************)
(* The values the producers construct: the instances of                    *)
(* generate_test_instances, and further samples with distinct fields.      *)
(***************************************************************************)
Str_snap == <<115, 110, 97, 112>>
Str_image_name == <<105, 109, 97, 103, 101, 32, 110, 97, 109, 101>>
Str_cluster_id == <<99, 108, 117, 115, 116, 101, 114, 95, 105, 100>>
Str_image_id == <<105, 109, 97, 103, 101, 95, 105, 100>>
Data_32_ones == [i \in 1..32 |-> 49]

EventEntry_generate_test_instances ==
  { AioDiscardEvent(0, 0), AioDiscardEvent(123, 345),
    AioWriteEvent(0, 0, << >>), AioWriteEvent(123, 456, Data_32_ones),
    AioFlushEvent,
    OpFinishEvent(123, -1),
    SnapEvent("SnapCreateEvent", 0, << >>), SnapEvent("SnapCreateEvent", 234, Str_snap),
    SnapEvent("SnapRemoveEvent", 0, << >>), SnapEvent("SnapRemoveEvent", 345, Str_snap),
    SnapRenameEvent(0, CEPH_NOSNAP, << >>), SnapRenameEvent(456, 1, Str_snap),
    SnapEvent("SnapProtectEvent", 0, << >>), SnapEvent("SnapProtectEvent", 567, Str_snap),
    SnapEvent("SnapUnprotectEvent", 0, << >>),
    SnapEvent("SnapUnprotectEvent", 678, Str_snap),
    SnapEvent("SnapRollbackEvent", 0, << >>),
    SnapEvent("SnapRollbackEvent", 789, Str_snap),
    RenameEvent(0, << >>), RenameEvent(890, Str_image_name),
    ResizeEvent(0, 0), ResizeEvent(901, 1234),
    FlattenEvent(123) }

ClientData_generate_test_instances ==
  { ImageClientMeta(0), ImageClientMeta(123),
    MirrorPeerClientMeta(<< >>, 0, << >>),
    MirrorPeerClientMeta(Str_cluster_id, 123, Str_image_id),
    CliClientMeta }

TagData_generate_test_instances ==
  { TagData(<< >>, 0, << >>, 0, 0), TagData(Str_cluster_id, 123, Str_image_id, 0, 0) }

\* further values: a large op id, a non-negative result, distinct tids
EventSamples ==
  EventEntry_generate_test_instances
    \cup { OpFinishEvent(16909060, 0), OpFinishEvent(65536, 7) }
ClientSamples ==
  ClientData_generate_test_instances
    \cup { MirrorPeerClientMeta(Str_image_id, -1, Str_cluster_id) }
TagSamples ==
  TagData_generate_test_instances
    \cup { TagData(Str_image_id, -5, Str_cluster_id, 77, 300) }

(***************************************************************************)
(* The state: one object of the class under exercise (the three classes    *)
(* share no state), a bufferlist written by encode and by foreign writers, *)
(* and the reader's iterator.                                              *)
(***************************************************************************)
VARIABLES
  cls,          \* the class exercised: "EventEntry", "ClientData", "TagData"
  event,        \* EventEntry::event
  client_meta,  \* ClientData::client_meta
  tag,          \* the TagData fields
  bl,           \* the bufferlist
  off,          \* the iterator's offset into bl
  err,          \* outcome of the last call: "none", "ok", an exception, "abort"
  last,         \* the last call: [op, start, before]
  recs          \* what was appended to bl: [start, end, val, trait, type, cut]

vars == <<cls, event, client_meta, tag, bl, off, err, last, recs>>

\* discriminators no catalog knows
UnknownTypes == {13, 9999}
\* min-compatible versions newer than the decoder
IncompatVersions == {DECODE_V + 1, 255}
\* bytes by which a declared length falls short of the fields written
MaxShort == 2
\* bytes a truncation keeps of, or removes from, the last envelope
MaxCut == 2

Filler(n) == [i \in 1..n |-> 255]

Held == CASE cls = "EventEntry" -> event
          [] cls = "ClientData" -> client_meta
          [] OTHER -> tag

Running == err \in {"none", "ok"}
\* a truncated bufferlist is not written to again
CanEncode ==
  /\ Running /\ Len(recs) < MaxRecs
  /\ \A i \in 1..Len(recs) : recs[i].cut = 0
\* foreign envelopes are in the bufferlist before it is read
CanAppend ==
  /\ CanEncode /\ off = 0
  /\ Cardinality({i \in 1..Len(recs) : recs[i].trait # "encoded"}) < MaxForeign

Rec(val, trait, type, bytes) ==
  [start |-> Len(bl), end |-> Len(bl) + Len(bytes), val |-> val, trait |-> trait,
   type |-> type, cut |-> 0]

Call(op) == [op |-> op, start |-> off, before |-> Held]

Init ==
  /\ cls \in {"EventEntry", "ClientData", "TagData"}
  /\ event = AioDiscardEvent(0, 0)
  /\ client_meta = ImageClientMeta(0)
  /\ tag = TagData(<< >>, 0, << >>, 0, 0)
  /\ bl = << >>
  /\ off = 0
  /\ err = "none"
  /\ last = [op |-> "init", start |-> 0, before |-> Held]
  /\ recs = << >>

(***************************************************************************)
(* Producers construct a value before anything is written.                 *)
(***************************************************************************)
EventConstruct ==
  /\ cls = "EventEntry" /\ Running /\ recs = << >>
  /\ \E v \in EventSamples : event' = v
  /\ last' = Call("EventEntry")
  /\ UNCHANGED <<cls, client_meta, tag, bl, off, err, recs>>

ClientConstruct ==
  /\ cls = "ClientData" /\ Running /\ recs = << >>
  /\ \E v \in ClientSamples : client_meta' = v
  /\ last' = Call("ClientData")
  /\ UNCHANGED <<cls, event, tag, bl, off, err, recs>>

TagConstruct ==
  /\ cls = "TagData" /\ Running /\ recs = << >>
  /\ \E v \in TagSamples : tag' = v
  /\ last' = Call("TagData")
  /\ UNCHANGED <<cls, event, client_meta, bl, off, err, recs>>

(***************************************************************************)
(* encode                                                                  *)
(***************************************************************************)
EventEncode ==
  /\ cls = "EventEntry" /\ CanEncode
  /\ LET e == EventEntry_encode(event, bl) IN
     /\ bl' = e.bl
     /\ err' = IF e.abort THEN "abort" ELSE "ok"
     /\ recs' = Append(recs, Rec(event, IF e.abort THEN "aborted" ELSE "encoded",
                                 TYPE(event.variant), SubSeq(e.bl, Len(bl) + 1, Len(e.bl))))
  /\ last' = Call("EventEntry::encode")
  /\ UNCHANGED <<cls, event, client_meta, tag, off>>

ClientEncode ==
  /\ cls = "ClientData" /\ CanEncode
  /\ LET e == ClientData_encode(client_meta, bl) IN
     /\ bl' = e.bl
     /\ err' = IF e.abort THEN "abort" ELSE "ok"
     /\ recs' = Append(recs, Rec(client_meta, IF e.abort THEN "aborted" ELSE "encoded",
                                 TYPE(client_meta.variant),
                                 SubSeq(e.bl, Len(bl) + 1, Len(e.bl))))
  /\ last' = Call("ClientData::encode")
  /\ UNCHANGED <<cls, event, client_meta, tag, off>>

TagEncode ==
  /\ cls = "TagData" /\ CanEncode
  /\ bl' = TagData_encode(tag, bl)
  /\ err' = "ok"
  /\ recs' = Append(recs, Rec(tag, "encoded", 0, SubSeq(bl', Len(bl) + 1, Len(bl'))))
  /\ last' = Call("TagData::encode")
  /\ UNCHANGED <<cls, event, client_meta, tag, off>>

(***************************************************************************)
(* decode at the iterator                                                  *)
(***************************************************************************)
EventDecode ==
  /\ cls = "EventEntry" /\ Running /\ recs # << >>
  /\ LET d == EventEntry_decode(event, bl, off) IN
     /\ event' = d.v
     /\ off' = d.off
     /\ err' = d.err
  /\ last' = Call("EventEntry::decode")
  /\ UNCHANGED <<cls, client_meta, tag, bl, recs>>

ClientDecode ==
  /\ cls = "ClientData" /\ Running /\ recs # << >>
  /\ LET d == ClientData_decode(client_meta, bl, off) IN
     /\ client_meta' = d.v
     /\ off' = d.off
     /\ err' = d.err
  /\ last' = Call("ClientData::decode")
  /\ UNCHANGED <<cls, event, tag, bl, recs>>

TagDecode ==
  /\ cls = "TagData" /\ Running /\ recs # << >>
  /\ LET d == TagData_decode(tag, bl, off) IN
     /\ tag' = d.v
     /\ off' = d.off
     /\ err' = d.err
  /\ last' = Call("TagData::decode")
  /\ UNCHANGED <<cls, event, client_meta, bl, recs>>

(***************************************************************************)
(* Foreign writers and the log: envelopes of other builds, a damaged tail. *)
(***************************************************************************)
Enveloped == cls \in {"EventEntry", "ClientData"}
Known == Held.variant \notin {"UnknownEvent", "UnknownClientMeta"}

Foreign(op, bytes, val, trait, type) ==
  /\ bl' = bl \o bytes
  /\ recs' = Append(recs, Rec(val, trait, type, bytes))
  /\ last' = Call(op)
  /\ UNCHANGED <<cls, event, client_meta, tag, off, err>>

\* an envelope of a newer build with a discriminator this build does not know
AppendUnknown ==
  /\ Enveloped /\ CanAppend
  /\ \E type \in UnknownTypes, n \in 0..MaxUnknownPayload :
       Foreign("unknown",
               ENCODE(STRUCT_V + 1, STRUCT_COMPAT, EncodeInt(type, 4) \o Filler(n)),
               IF cls = "EventEntry" THEN UnknownEvent ELSE UnknownClientMeta,
               "unknown", type)

\* the held value as a newer build writes it: more fields at the end
AppendTrailing ==
  /\ Enveloped /\ CanAppend /\ Known
  /\ \E extra \in 1..MaxExtra :
       Foreign("trailing",
               ENCODE(STRUCT_V + 1, STRUCT_COMPAT, EncodeVisitor(Held).bytes \o Filler(extra)),
               Held, "trailing", TYPE(Held.variant))

\* an envelope whose min-compatible version is newer than the decoder
AppendIncompatible ==
  /\ Enveloped /\ CanAppend /\ Known
  /\ \E compat \in IncompatVersions, type \in {TYPE(Held.variant), 9999} :
       Foreign("incompatible",
               ENCODE(compat, compat,
                      IF type \in UnknownTypes THEN EncodeInt(type, 4)
                      ELSE EncodeVisitor(Held).bytes),
               Held, "incompatible", type)

\* an envelope declaring fewer bytes than its variant's fields take
AppendShort ==
  /\ Enveloped /\ CanAppend /\ Known
  /\ \E k \in 1..MaxShort :
       LET payload == EncodeVisitor(Held).bytes IN
       Foreign("short",
               Envelope(STRUCT_V, STRUCT_COMPAT, Len(payload) - k, payload),
               Held, "short", TYPE(Held.variant))

\* the tail of the bufferlist is lost
Truncate ==
  /\ Running /\ recs # << >> /\ off = 0
  /\ LET n == Len(recs)
         rec == recs[n]
     IN /\ rec.cut = 0
        /\ \E len \in {rec.start + j : j \in 0..MaxCut} \cup {rec.end - j : j \in 1..MaxCut} :
             /\ len >= rec.start /\ len < rec.end
             /\ bl' = SubSeq(bl, 1, len)
             /\ recs' = [recs EXCEPT ![n].cut = rec.end - len]
  /\ last' = Call("truncate")
  /\ UNCHANGED <<cls, event, client_meta, tag, off, err>>

Next ==
  \/ EventConstruct \/ ClientConstruct \/ TagConstruct
  \/ EventEncode \/ ClientEncode \/ TagEncode
  \/ EventDecode \/ ClientDecode \/ TagDecode
  \/ AppendUnknown \/ AppendTrailing \/ AppendIncompatible \/ AppendShort
  \/ Truncate

Spec == Init /\ [][Next]_vars

(***************************************************************************)
(* The record the last decode started at.                                  *)
(***************************************************************************)
IsDecode == last.op \in {"EventEntry::decode", "ClientData::decode", "TagData::decode"}
IsEncode == last.op \in {"EventEntry::encode", "ClientData::encode", "TagData::encode"}
HasRec == \E i \in 1..Len(recs) : recs[i].start = last.start
TheRec == recs[CHOOSE i \in 1..Len(recs) : recs[i].start = last.start]
Decoded(trait) == IsDecode /\ HasRec /\ TheRec.trait = trait
BytesOf(rec) == SubSeq(bl, rec.start + 1, rec.end)

Placeholder == IF cls = "EventEntry" THEN UnknownEvent ELSE UnknownClientMeta
Decode(prior, buf, at) ==
  CASE cls = "EventEntry" -> EventEntry_decode(prior, buf, at)
    [] cls = "ClientData" -> ClientData_decode(prior, buf, at)
    [] OTHER -> TagData_decode(prior, buf, at)
Outcome == [err |-> err, v |-> Held, off |-> off]
Errors == {"end_of_buffer", "malformed_input", "IncompatibleVersion"}

(***************************************************************************)
(* C1  Round trip: decoding the bytes encode produced for a known variant  *)
(* of EventEntry or ClientData, or for a TagData, succeeds and yields the  *)
(* same variant, the same discriminator and the same fields.               *)
(***************************************************************************)
C1_RoundTrip ==
  (Decoded("encoded") /\ TheRec.cut = 0) =>
    /\ err = "ok"
    /\ Held = TheRec.val
    /\ Enveloped => GetTypeVisitor(Held) = TheRec.type
    /\ off = TheRec.end

C1_Witness ==
  /\ Decoded("encoded") /\ err = "ok"
  /\ cls = "EventEntry" /\ event.variant = "AioWriteEvent" /\ Len(event.data) = 32
  /\ last.before = event

(***************************************************************************)
(* C2  Unknown discriminator: decoding an intact envelope whose            *)
(* discriminator no catalog knows succeeds, leaves the placeholder variant *)
(* (which has no field, so no payload byte is interpreted) and the cursor  *)
(* at the end of the declared length; the record that follows an unknown   *)
(* one decodes as it does alone.                                           *)
(***************************************************************************)
C2_UnknownSkipped ==
  /\ (Enveloped /\ Decoded("unknown") /\ TheRec.cut = 0) =>
       /\ err = "ok"
       /\ Held = Placeholder
       /\ off = TheRec.end
  /\ (Enveloped /\ IsDecode /\ Len(recs) >= 2 /\ last.start = recs[2].start
        /\ recs[1].trait = "unknown") =>
       LET alone == Decode(last.before, SubSeq(bl, recs[2].start + 1, Len(bl)), 0) IN
       /\ err = alone.err
       /\ Held = alone.v
       /\ off = recs[2].start + alone.off

C2_Witness ==
  /\ cls = "EventEntry" /\ IsDecode /\ Len(recs) >= 2 /\ last.start = recs[2].start
  /\ recs[1].trait = "unknown" /\ recs[1].type = 9999
  /\ recs[1].end - recs[1].start > 10
  /\ last.before = UnknownEvent
  /\ err = "ok" /\ event = SnapRenameEvent(456, 1, Str_snap)

(***************************************************************************)
(* C3  Trailing fields: an intact envelope of a known variant whose        *)
(* declared length exceeds what the variant reads decodes successfully to  *)
(* the fields of the same envelope without the extra bytes, the cursor at  *)
(* the end of the declared length.                                         *)
(***************************************************************************)
C3_TrailingSkipped ==
  (Enveloped /\ Decoded("trailing") /\ TheRec.cut = 0) =>
    LET bare == Decode(last.before,
                       ENCODE(STRUCT_V + 1, STRUCT_COMPAT, EncodeVisitor(TheRec.val).bytes),
                       0) IN
    /\ err = "ok"
    /\ bare.err = "ok"
    /\ Held = bare.v
    /\ Held = TheRec.val
    /\ off = TheRec.end
    /\ off > TheRec.start + bare.off

C3_Witness ==
  /\ cls = "ClientData" /\ Decoded("trailing") /\ err = "ok"
  /\ client_meta = MirrorPeerClientMeta(Str_cluster_id, 123, Str_image_id)
  /\ off = TheRec.end

(***************************************************************************)
(* C4  Version floor: an envelope whose min-compatible version is above 1  *)
(* fails with IncompatibleVersion whatever its discriminator and payload,  *)
(* before either is read: the held value is unchanged and the cursor is    *)
(* just behind the two version bytes.                                      *)
(***************************************************************************)
C4_VersionFloor ==
  (Enveloped /\ Decoded("incompatible") /\ Len(bl) >= TheRec.start + 2) =>
    /\ err = "IncompatibleVersion"
    /\ Held = last.before
    /\ off = TheRec.start + 2

C4_Witness ==
  /\ cls = "EventEntry" /\ Decoded("incompatible") /\ err = "IncompatibleVersion"
  /\ TheRec.type = EVENT_TYPE_RESIZE
  /\ event = ResizeEvent(901, 1234)

(***************************************************************************)
(* C5  Encode of a placeholder aborts: encode of an EventEntry holding     *)
(* UnknownEvent or of a ClientData holding UnknownClientMeta ends in the   *)
(* abort, never in a normal return; no other encode aborts.                *)
(***************************************************************************)
C5_PlaceholderEncodeAborts ==
  /\ (IsEncode /\ Enveloped) => (err = "abort" <=> Held = Placeholder)
  /\ (IsEncode /\ Enveloped /\ Held # Placeholder) => err = "ok"
  /\ err = "abort" => (IsEncode /\ recs[Len(recs)].trait = "aborted")
  /\ \A i \in 1..Len(recs) :
       (Enveloped /\ recs[i].trait = "encoded") => recs[i].val # Placeholder

C5_Witness ==
  /\ cls = "EventEntry" /\ IsEncode /\ err = "abort" /\ event = UnknownEvent
  /\ Len(recs) = 2 /\ recs[1].trait = "unknown"

(***************************************************************************)
(* C6  The discriminator of an unknown envelope.  The claim: get_event_type*)
(* on the placeholder returns the discriminator n that was decoded and dump*)
(* renders "Unknown (n)".                                                  *)
(***************************************************************************)
C6_UnknownTypePreserved ==
  (cls = "EventEntry" /\ Decoded("unknown") /\ TheRec.cut = 0) =>
    /\ EventEntry_get_event_type(event) = TheRec.type
    /\ EventEntry_dump(event)[1] =
         <<"event_type", "Unknown (" \o ToString(TheRec.type) \o ")">>

(***************************************************************************)
(* C6 as amended: the placeholder keeps no discriminator; get_event_type   *)
(* returns UnknownEvent's own fixed TYPE, static_cast<EventType>(-1),      *)
(* whatever n was, and dump renders that constant, "Unknown (4294967295)", *)
(* and nothing else.                                                       *)
(***************************************************************************)
C6_UnknownTypeFixed ==
  (cls = "EventEntry" /\ Decoded("unknown") /\ TheRec.cut = 0) =>
    /\ EventEntry_get_event_type(event) = EVENT_TYPE_UNKNOWN
    /\ TheRec.type # EVENT_TYPE_UNKNOWN => EventEntry_get_event_type(event) # TheRec.type
    /\ EventEntry_dump(event) = << <<"event_type", "Unknown (4294967295)">> >>

C6_Witness ==
  /\ cls = "EventEntry" /\ Decoded("unknown") /\ TheRec.cut = 0 /\ err = "ok"
  /\ TheRec.type = 9999 /\ event = UnknownEvent

(***************************************************************************)
(* C7  Wire field order.  Fields are <<name, width>>, width 0 a            *)
(* length-prefixed string or blob.  TableOrder is the data-model table;    *)
(* WireOrder differs from it in SnapRename alone.                          *)
(***************************************************************************)
TableOrder(variant) ==
  CASE variant = "AioDiscardEvent" -> << <<"offset", 8>>, <<"length", 8>> >>
    [] variant = "AioWriteEvent" -> << <<"offset", 8>>, <<"length", 8>>, <<"data", 0>> >>
    [] variant = "OpFinishEvent" -> << <<"op_tid", 8>>, <<"op_tid", 8>>, <<"r", 4>> >>
    [] variant \in SnapVariants -> << <<"op_tid", 8>>, <<"snap_name", 0>> >>
    [] variant = "SnapRenameEvent" ->
         << <<"op_tid", 8>>, <<"snap_id", 8>>, <<"snap_name", 0>> >>
    [] variant = "RenameEvent" -> << <<"op_tid", 8>>, <<"image_name", 0>> >>
    [] variant = "ResizeEvent" -> << <<"op_tid", 8>>, <<"size", 8>> >>
    [] variant = "FlattenEvent" -> << <<"op_tid", 8>> >>
    [] variant = "ImageClientMeta" -> << <<"tag_class", 8>> >>
    [] variant = "MirrorPeerClientMeta" ->
         << <<"cluster_id", 0>>, <<"pool_id", 8>>, <<"image_id", 0>> >>
    [] OTHER -> << >>

WireOrder(variant) ==
  IF variant = "SnapRenameEvent"
  THEN << <<"op_tid", 8>>, <<"snap_name", 0>>, <<"snap_id", 8>> >>
  ELSE TableOrder(variant)

RECURSIVE FieldBytes(_, _)
FieldBytes(t, order) ==
  IF order = << >> THEN << >>
  ELSE LET f == Head(order) IN
       (IF f[2] = 0 THEN EncLE(Len(t[f[1]]), 4) \o t[f[1]] ELSE EncodeInt(t[f[1]], f[2]))
         \o FieldBytes(t, Tail(order))

\* an envelope laid out field by field in the given order
LaidOut(t, order) ==
  LET payload == EncodeInt(TYPE(t.variant), 4) \o FieldBytes(t, order) IN
  <<STRUCT_V, STRUCT_COMPAT>> \o EncodeInt(Len(payload), 4) \o payload

\* the claim: encode writes, and decode reads, every variant in table order
C7_TableOrder ==
  (Enveloped /\ IsEncode /\ err = "ok") =>
    LET rec == recs[Len(recs)] IN
    /\ BytesOf(rec) = LaidOut(rec.val, TableOrder(rec.val.variant))
    /\ Decode(Placeholder, LaidOut(rec.val, TableOrder(rec.val.variant)), 0).v = rec.val

\* C7 as amended: encode writes, and decode reads, the fields of every
\* variant in the order of the data-model table, except SnapRename, which
\* is op_tid, then snap_name (destination), then snap_id (source).
C7_WireOrder ==
  (Enveloped /\ IsEncode /\ err = "ok") =>
    LET rec == recs[Len(recs)] IN
    /\ BytesOf(rec) = LaidOut(rec.val, WireOrder(rec.val.variant))
    /\ Decode(Placeholder, LaidOut(rec.val, WireOrder(rec.val.variant)), 0)
         = [err |-> "ok", v |-> rec.val, off |-> rec.end - rec.start]

C7_Witness ==
  /\ cls = "EventEntry" /\ IsEncode /\ err = "ok"
  /\ recs[Len(recs)].val = SnapRenameEvent(456, 1, Str_snap)

(***************************************************************************)
(* C8  Decode replaces the held value wholesale: the outcome of a          *)
(* successful decode is the outcome of the same decode into an object      *)
(* holding any other value, so nothing of the earlier value survives.      *)
(***************************************************************************)
Priors ==
  CASE cls = "EventEntry" -> EventSamples \cup {UnknownEvent}
    [] cls = "ClientData" -> ClientSamples \cup {UnknownClientMeta}
    [] OTHER -> TagSamples

C8_DecodeReplaces ==
  (IsDecode /\ err = "ok") =>
    \A prior \in Priors : Decode(prior, bl, last.start) = Outcome

C8_Witness ==
  /\ cls = "EventEntry" /\ IsDecode /\ err = "ok"
  /\ last.before = AioWriteEvent(123, 456, Data_32_ones)
  /\ event = UnknownEvent

(***************************************************************************)
(* C9  OpFinish: encode writes the operation id twice, then the result;    *)
(* decode reads both, and encoding the decoded value again reproduces the  *)
(* first encoding byte for byte.                                           *)
(***************************************************************************)
C9_OpFinishTwice ==
  (cls = "EventEntry" /\ IsEncode /\ err = "ok" /\ event.variant = "OpFinishEvent") =>
    LET n == Len(recs) IN
    /\ BytesOf(recs[n]) =
         <<STRUCT_V, STRUCT_COMPAT>> \o EncodeInt(4 + 8 + 8 + 4, 4)
           \o EncodeInt(EVENT_TYPE_OP_FINISH, 4)
           \o EncodeInt(event.op_tid, 8) \o EncodeInt(event.op_tid, 8)
           \o EncodeInt(event.r, 4)
    /\ (n >= 2 /\ recs[n - 1].trait = "encoded" /\ off = recs[n - 1].end) =>
         BytesOf(recs[n]) = BytesOf(recs[n - 1])

C9_Witness ==
  /\ cls = "EventEntry" /\ IsEncode /\ err = "ok" /\ event = OpFinishEvent(123, -1)
  /\ Len(recs) = 2 /\ recs[1].trait = "encoded" /\ off = recs[1].end
  /\ recs[1].val = event

(***************************************************************************)
(* C10  Truncated or malformed input: decoding an envelope of which bytes  *)
(* are missing, or which declares fewer bytes than its known variant       *)
(* reads, ends in an exception, never in a normal return.                  *)
(***************************************************************************)
C10_TruncatedFails ==
  (Enveloped /\ IsDecode /\ HasRec /\ (TheRec.cut > 0 \/ TheRec.trait = "short")) =>
    err \in Errors

C10_Witness ==
  /\ cls = "EventEntry" /\ Decoded("short") /\ TheRec.cut = 0
  /\ err = "malformed_input"
  /\ event.variant = "SnapRenameEvent"

====
